---- MODULE Spec2Model ----
(***************************************************************************)
(* A model of neuralynx_io.py: the header reader, the header parser, the   *)
(* record decoder, the continuous-signal consistency check and the two     *)
(* file loaders.  A file is a byte string; the model keeps its header text *)
(* as a sequence of characters followed by a run of NUL padding, and its   *)
(* record stream as a sequence of decoded records followed by a number of  *)
(* trailing bytes.  Every operation of the module is one action that       *)
(* leaves its outcome (return value or exception, and the warnings it      *)
(* emitted) in res.                                                        *)
(***************************************************************************)
EXTENDS Integers, Sequences, FiniteSets, TLC

VARIABLES file, pos, res

vars == <<file, pos, res>>

(***************************************************************************)
(* Program constants.                                                      *)
(***************************************************************************)
HEADER_LENGTH == 16384

NCS_SAMPLES_PER_RECORD == 512

\* NCS_RECORD.itemsize: u64 + 3 * u32 + 512 * i16
NCS_ITEMSIZE == 8 + 4 + 4 + 4 + 2 * NCS_SAMPLES_PER_RECORD

\* NEV_RECORD.itemsize: 3 * i16 + u64 + 5 * i16 + 8 * i32 + 128 one-byte characters
NEV_ITEMSIZE == 3 * 2 + 8 + 5 * 2 + 8 * 4 + 128

\* The valid-sample count check_ncs_records compares against.
FULL_RECORD == 512

\* The step of np.arange(0, num_samples, 512), the anchors of the interpolation.
ANCHOR_STEP == 512

(***************************************************************************)
(* Bounds of the model.                                                    *)
(***************************************************************************)
\* Most records in a file.
MaxRecords == 3

\* Most parameter lines in a header.
MaxParams == 2

\* Width of the TimeStamp field in the model: np.uint64 arithmetic is
\* arithmetic modulo 2^64, modelled modulo 2^TimeStampBits.
TimeStampBits == 2

UINT64_MOD == 2 ^ TimeStampBits

(***************************************************************************)
(* Characters.  A byte and the iso-8859-1 character it decodes to are the  *)
(* same symbol; the three control characters have names.                   *)
(***************************************************************************)
NUL == "NUL"

CR == "CR"

LF == "LF"

\* The characters str.split() and str.strip() treat as white space.
IsSpace(c) == c \in {" ", "TAB", CR, LF}

Min(a, b) == IF a < b THEN a ELSE b

Max(a, b) == IF a < b THEN b ELSE a

\* C integer division (truncation toward zero), for a positive divisor.
CDiv(a, b) == IF a >= 0 THEN a \div b ELSE -((-a) \div b)

Range(s) == {s[i] : i \in DOMAIN s}

Drop(s, n) == IF n >= Len(s) THEN <<>> ELSE SubSeq(s, n + 1, Len(s))

Take(s, n) == SubSeq(s, 1, Min(n, Len(s)))

None == [t |-> "None"]

Str(s) == [t |-> "str", v |-> s]

(***************************************************************************)
(* bytes.strip(b'\0')                                                      *)
(***************************************************************************)
RECURSIVE LStripNul(_)
LStripNul(s) ==
    IF s # <<>> /\ Head(s) = NUL THEN LStripNul(Tail(s)) ELSE s

RECURSIVE RStripNul(_)
RStripNul(s) ==
    IF s # <<>> /\ s[Len(s)] = NUL THEN RStripNul(SubSeq(s, 1, Len(s) - 1)) ELSE s

\* b.strip(b'\0') of the bytes b.data followed by b.zeros NUL bytes: NUL
\* bytes are removed at both ends.
StripNul(b) == LStripNul(RStripNul(b.data))

(***************************************************************************)
(* Files and the file object.                                              *)
(***************************************************************************)
itemsize(dtype) == IF dtype = "NCS_RECORD" THEN NCS_ITEMSIZE ELSE NEV_ITEMSIZE

\* os.path.getsize
FileSize(f) == Len(f.hdr) + f.pad + itemsize(f.kind) * Len(f.recs) + f.tail

\* fid.read(n) at position 0, for n <= HEADER_LENGTH: at most n bytes, fewer
\* when the file is shorter.
fid_read(f, n) ==
    [data  |-> Take(f.hdr, n),
     zeros |-> Min(f.pad, Max(0, n - Len(f.hdr)))]

\* A record's Samples array: NCS_SAMPLES_PER_RECORD values of type int16.  No
\* operation reads the values, so the array is kept as a block: its length and
\* a name for its contents.
SampleBlock(s) == [len |-> NCS_SAMPLES_PER_RECORD, contents |-> s]

\* The record np.fromfile decodes from a stride of NUL padding.
ZeroRecord(dtype) ==
    IF dtype = "NCS_RECORD"
    THEN [TimeStamp |-> 0, ChannelNumber |-> 0, SampleFreq |-> 0, NumValidSamples |-> 0,
          Samples |-> SampleBlock(0)]
    ELSE [stx |-> 0, pkt_id |-> 0, pkt_data_size |-> 0, TimeStamp |-> 0, event_id |-> 0,
          ttl |-> 0, crc |-> 0, dummy1 |-> 0, dummy2 |-> 0,
          Extra |-> [j \in 1..8 |-> 0], EventString |-> <<>>]

\* The record at index i of the record stream (index 0 is the first record
\* after the header; a negative index lies in the header's padding).
ItemAt(f, i) == IF i < 0 THEN ZeroRecord(f.kind) ELSE f.recs[i + 1]

(***************************************************************************)
(* read_header                                                             *)
(***************************************************************************)
\* The position read_header leaves the file object at: fid.seek(pos).
read_header_pos(f, p) == p

read_header(f, p) ==
    [raised |-> "none",
     value  |-> StripNul(fid_read(f, HEADER_LENGTH)),
     pos    |-> read_header_pos(f, p),
     warnings |-> <<>>]

\* The count argument: None (the default), or a number of records.
NoCount == <<>>

Count(n) == <<n>>

(***************************************************************************)
(* read_records                                                            *)
(***************************************************************************)
\* np.fromfile(fid, dtype, count) with the file object at byte offset start:
\* a negative count reads (size - start) / itemsize items (C division), and a
\* negative item count is refused; otherwise at most count items are read.
np_fromfile(f, start, dtype, count) ==
    LET avail == FileSize(f) - start
        first == (start - HEADER_LENGTH) \div itemsize(dtype)
        num   == IF count < 0 THEN CDiv(avail, itemsize(dtype)) ELSE count
        nread == Min(num, Max(0, avail \div itemsize(dtype)))
    IN  IF num < 0
        THEN [raised |-> "ValueError", value |-> <<>>]
        ELSE [raised |-> "none",
              value  |-> [k \in 1..nread |-> ItemAt(f, first + k - 1)]]

\* read_records without its last line: the file object stays where
\* np.fromfile left it, after the last record read.
read_records_pos_not_restored(f, p, skip, count) ==
    LET start == HEADER_LENGTH + skip * itemsize(f.kind)
    IN  start + itemsize(f.kind) * Len(np_fromfile(f, start, f.kind, count).value)

\* The position read_records leaves the file object at when it returns:
\* fid.seek(pos).
read_records_pos(f, p, skip, count) == p

read_records(f, p, dtype, record_skip, cnt) ==
    LET count == IF cnt = NoCount THEN -1 ELSE cnt[1]
        start == HEADER_LENGTH + record_skip * itemsize(dtype)
        rec   == np_fromfile(f, start, dtype, count)
    IN  IF start < 0
        THEN \* fid.seek(offset, 1) to before the start of the file
             [raised |-> "OSError", value |-> <<>>, pos |-> HEADER_LENGTH,
              warnings |-> <<>>]
        ELSE IF rec.raised # "none"
        THEN [raised |-> rec.raised, value |-> <<>>, pos |-> start, warnings |-> <<>>]
        ELSE [raised |-> "none", value |-> rec.value,
              pos |-> read_records_pos(f, p, record_skip, count), warnings |-> <<>>]

(***************************************************************************)
(* estimate_record_count                                                   *)
(***************************************************************************)
SIZE_WARNING == "File size is not divisible by record size"

\* The quotient is a true division: the value is the fraction num / den.
estimate_record_count(f, dtype) ==
    LET file_size == FileSize(f) - HEADER_LENGTH
    IN  [raised |-> "none",
         value  |-> [num |-> file_size, den |-> itemsize(dtype)],
         warnings |-> IF file_size % itemsize(dtype) # 0
                      THEN <<SIZE_WARNING>>
                      ELSE <<>>]

(***************************************************************************)
(* Texts: the strings the parser compares with, and header lines.          *)
(***************************************************************************)
BANNER ==
    <<"#","#","#","#","#","#","#","#"," ","N","e","u","r","a","l","y","n","x"," ","D","a","t","a",
      " ","F","i","l","e"," ","H","e","a","d","e","r">>

OTHER_BANNER ==
    <<"#","#"," ","H","e","a","d","e","r">>

LINE_FILE_NAME ==
    <<"#","#"," ","F","i","l","e"," ","N","a","m","e"," ","C",":","/","d","/","a",".","n","c","s">>

LINE_NO_FILE_NAME ==
    <<"#","#"," ","a",".","n","c","s">>

TIME_OPENED ==
    <<"#","#"," ","T","i","m","e"," ","O","p","e","n","e","d"," ","(","m","/","d","/","y",")",":",
      " ","1","2","/","2","5","/","2","0","2","0"," "," ","(","h",":","m",":","s",".","m","s",")",
      " ","1","3",":","4","5",":","3","0",".","5","0","0">>

TIME_CLOSED ==
    <<"#","#"," ","T","i","m","e"," ","C","l","o","s","e","d"," ","(","m","/","d","/","y",")",":",
      " ","1","2","/","2","5","/","2","0","2","0"," "," ","(","h",":","m",":","s",".","m","s",")",
      " ","1","4",":","5",":","1",".","2","5">>

TIME_MISSING_TOKENS ==
    <<"#","#"," ","T","i","m","e"," ","O","p","e","n","e","d">>
TIME_MONTH_13 ==
    <<"#","#"," ","T","i","m","e"," ","O","p","e","n","e","d"," ","(","m","/","d","/","y",")",":",
      " ","1","3","/","2","5","/","2","0","2","0"," "," ","(","h",":","m",":","s",".","m","s",")",
      " ","1","3",":","4","5",":","3","0",".","5","0","0">>
TIME_HOUR_24 ==
    <<"#","#"," ","T","i","m","e"," ","O","p","e","n","e","d"," ","(","m","/","d","/","y",")",":",
      " ","1","2","/","2","5","/","2","0","2","0"," "," ","(","h",":","m",":","s",".","m","s",")",
      " ","2","4",":","4","5",":","3","0",".","5","0","0">>
TIME_MS_1000 ==
    <<"#","#"," ","T","i","m","e"," ","O","p","e","n","e","d"," ","(","m","/","d","/","y",")",":",
      " ","1","2","/","2","5","/","2","0","2","0"," "," ","(","h",":","m",":","s",".","m","s",")",
      " ","1","3",":","4","5",":","3","0",".","1","0","0","0">>

TIME_TWO_DATE_FIELDS ==
    <<"#","#"," ","T","i","m","e"," ","O","p","e","n","e","d"," ","(","m","/","d","/","y",")",":",
      " ","1","2","/","2","0","2","0"," "," ","(","h",":","m",":","s",".","m","s",")"," ","1","3",
      ":","4","5",":","3","0",".","5","0","0">>

TIME_NON_NUMERIC ==
    <<"#","#"," ","T","i","m","e"," ","O","p","e","n","e","d"," ","(","m","/","d","/","y",")",":",
      " ","x","x","/","2","5","/","2","0","2","0"," "," ","(","h",":","m",":","s",".","m","s",")",
      " ","1","3",":","4","5",":","3","0",".","5","0","0">>

TIME_NO_MS ==
    <<"#","#"," ","T","i","m","e"," ","O","p","e","n","e","d"," ","(","m","/","d","/","y",")",":",
      " ","1","2","/","2","5","/","2","0","2","0"," "," ","(","h",":","m",":","s",".","m","s",")",
      " ","1","3",":","4","5",":","3","0">>
TIME_FEB_30 ==
    <<"#","#"," ","T","i","m","e"," ","O","p","e","n","e","d"," ","(","m","/","d","/","y",")",":",
      " ","2","/","3","0","/","2","0","2","0"," "," ","(","h",":","m",":","s",".","m","s",")"," ",
      "1","3",":","4","5",":","3","0",".","5","0","0">>

KEY_FileName ==
    <<"F","i","l","e","N","a","m","e">>

KEY_TimeOpened ==
    <<"T","i","m","e","O","p","e","n","e","d">>

KEY_TimeOpened_dt ==
    <<"T","i","m","e","O","p","e","n","e","d","_","d","t">>

KEY_TimeClosed ==
    <<"T","i","m","e","C","l","o","s","e","d">>

KEY_TimeClosed_dt ==
    <<"T","i","m","e","C","l","o","s","e","d","_","d","t">>

KEY_ADBitVolts ==
    <<"A","D","B","i","t","V","o","l","t","s">>

PARAM_ADBITVOLTS ==
    <<"-","A","D","B","i","t","V","o","l","t","s"," ","0",".","5">>

PARAM_A ==
    <<"-","A"," ","1">>
PARAM_A2 ==
    <<"-","A"," ","2">>

PARAM_NO_DASH ==
    <<"X","B"," ","2">>

PARAM_ONE_TOKEN ==
    <<"-","C">>

PARAM_THREE_TOKENS ==
    <<"-","D"," ","3"," ","4">>

PARAM_DASH_SPACE ==
    <<"-"," ","E"," ","5">>

FILE ==
    <<"F","i","l","e">>

NAME ==
    <<"N","a","m","e">>

(***************************************************************************)
(* String operations of the header parser.                                 *)
(***************************************************************************)
\* The least i with s[i] = CR and s[i + 1] = LF, or 0.
RECURSIVE FindCRLF(_, _)
FindCRLF(s, i) ==
    IF i >= Len(s) THEN 0
    ELSE IF s[i] = CR /\ s[i + 1] = LF THEN i
    ELSE FindCRLF(s, i + 1)

\* s.split('\r\n')
RECURSIVE SplitCRLF(_)
SplitCRLF(s) ==
    LET i == FindCRLF(s, 1)
    IN  IF i = 0 THEN <<s>>
        ELSE <<SubSeq(s, 1, i - 1)>> \o SplitCRLF(Drop(s, i + 1))

\* s.split(c), c one character
RECURSIVE SplitChar(_, _, _)
SplitChar(s, c, cur) ==
    IF s = <<>> THEN <<cur>>
    ELSE IF Head(s) = c THEN <<cur>> \o SplitChar(Tail(s), c, <<>>)
    ELSE SplitChar(Tail(s), c, Append(cur, Head(s)))

\* s.split(): the maximal runs of characters that are not white space
RECURSIVE SplitWS(_, _)
SplitWS(s, cur) ==
    IF s = <<>> THEN (IF cur = <<>> THEN <<>> ELSE <<cur>>)
    ELSE IF IsSpace(Head(s))
         THEN (IF cur = <<>> THEN <<>> ELSE <<cur>>) \o SplitWS(Tail(s), <<>>)
         ELSE SplitWS(Tail(s), Append(cur, Head(s)))

split(s) == SplitWS(s, <<>>)

RECURSIVE LStripWS(_)
LStripWS(s) == IF s # <<>> /\ IsSpace(Head(s)) THEN LStripWS(Tail(s)) ELSE s

RECURSIVE RStripWS(_)
RStripWS(s) ==
    IF s # <<>> /\ IsSpace(s[Len(s)]) THEN RStripWS(SubSeq(s, 1, Len(s) - 1)) ELSE s

\* s.strip()
strip(s) == LStripWS(RStripWS(s))

\* s.replace(a, b), a and b one character
replace(s, a, b) == [i \in DOMAIN s |-> IF s[i] = a THEN b ELSE s[i]]

\* ' '.join(toks)
RECURSIVE join(_)
join(toks) ==
    IF toks = <<>> THEN <<>>
    ELSE IF Len(toks) = 1 THEN toks[1]
    ELSE toks[1] \o <<" ">> \o join(Tail(toks))

\* raw_hdr.decode('iso-8859-1'): byte b becomes the character with code point
\* b; a byte and its character are the same symbol here.
decode(raw) == [i \in DOMAIN raw |-> raw[i]]

Digits == <<"0", "1", "2", "3", "4", "5", "6", "7", "8", "9">>

DigitVal(c) == (CHOOSE i \in DOMAIN Digits : Digits[i] = c) - 1

IsDigit(c) == c \in Range(Digits)

RECURSIVE DigitsVal(_, _)
DigitsVal(s, acc) ==
    IF s = <<>> THEN acc ELSE DigitsVal(Tail(s), 10 * acc + DigitVal(Head(s)))

\* int(x): an optional sign and one or more decimal digits; anything else is
\* a ValueError (ok = FALSE).
int(x) ==
    LET signed == x # <<>> /\ Head(x) \in {"+", "-"}
        body   == IF signed THEN Tail(x) ELSE x
        ok     == body # <<>> /\ \A i \in DOMAIN body : IsDigit(body[i])
    IN  [ok |-> ok,
         v  |-> IF ~ok THEN 0
                ELSE IF signed /\ Head(x) = "-" THEN -DigitsVal(body, 0)
                ELSE DigitsVal(body, 0)]

\* np.float64(x) accepts x: digits with at most one decimal point.
IsFloatLiteral(x) ==
    LET signed == x # <<>> /\ Head(x) \in {"+", "-"}
        body   == IF signed THEN Tail(x) ELSE x
    IN  /\ \E i \in DOMAIN body : IsDigit(body[i])
        /\ \A i \in DOMAIN body : IsDigit(body[i]) \/ body[i] = "."
        /\ Cardinality({i \in DOMAIN body : body[i] = "."}) <= 1

(***************************************************************************)
(* datetime.datetime(year, month, day, hour, minute, second, microsecond)  *)
(***************************************************************************)
IsLeap(y) == y % 4 = 0 /\ (y % 100 # 0 \/ y % 400 = 0)

DaysInMonth(y, m) ==
    IF m = 2 THEN (IF IsLeap(y) THEN 29 ELSE 28)
    ELSE IF m \in {4, 6, 9, 11} THEN 30 ELSE 31

datetime_ok(y, m, d, H, M, S, us) ==
    /\ y \in 1..9999
    /\ m \in 1..12
    /\ d \in 1..DaysInMonth(y, m)
    /\ H \in 0..23
    /\ M \in 0..59
    /\ S \in 0..59
    /\ us \in 0..999999

(***************************************************************************)
(* parse_neuralynx_time_string                                             *)
(***************************************************************************)
TIME_WARNING == "Unable to parse time string from Neuralynx header"

\* The try block: tmp_date, tmp_time and tmp_microsecond, or a failure
\* (an IndexError or a ValueError, both caught).
time_string_try(time_string) ==
    LET toks     == split(time_string)
        date     == IF Len(toks) >= 5 THEN SplitChar(toks[5], "/", <<>>) ELSE <<>>
        time     == IF Len(toks) >= 1
                    THEN SplitChar(replace(toks[Len(toks)], ".", ":"), ":", <<>>)
                    ELSE <<>>
        tmp_date == [i \in DOMAIN date |-> int(date[i])]
        tmp_time == [i \in DOMAIN time |-> int(time[i])]
        ok       == /\ Len(toks) >= 5
                    /\ \A i \in DOMAIN tmp_date : tmp_date[i].ok
                    /\ \A i \in DOMAIN tmp_time : tmp_time[i].ok
                    /\ Len(tmp_time) >= 4
    IN  [ok |-> ok,
         tmp_date |-> [i \in DOMAIN date |-> tmp_date[i].v],
         tmp_time |-> [i \in DOMAIN time |-> tmp_time[i].v],
         tmp_microsecond |-> IF ok THEN tmp_time[4].v * 1000 ELSE 0]

\* The else block: the datetime is built outside the try, so what it raises
\* reaches the caller.
time_string_else(tr) ==
    IF Len(tr.tmp_date) < 3
    THEN [raised |-> "IndexError", value |-> None, warnings |-> <<>>]
    ELSE IF ~datetime_ok(tr.tmp_date[3], tr.tmp_date[1], tr.tmp_date[2],
                         tr.tmp_time[1], tr.tmp_time[2], tr.tmp_time[3],
                         tr.tmp_microsecond)
    THEN [raised |-> "ValueError", value |-> None, warnings |-> <<>>]
    ELSE [raised |-> "none",
          value  |-> [t |-> "datetime",
                      year |-> tr.tmp_date[3], month |-> tr.tmp_date[1],
                      day |-> tr.tmp_date[2], hour |-> tr.tmp_time[1],
                      minute |-> tr.tmp_time[2], second |-> tr.tmp_time[3],
                      microsecond |-> tr.tmp_microsecond],
          warnings |-> <<>>]

parse_neuralynx_time_string(time_string) ==
    LET t == time_string_try(time_string)
    IN  IF ~t.ok
        THEN [raised |-> "none", value |-> None, warnings |-> <<TIME_WARNING>>]
        ELSE time_string_else(t)

(***************************************************************************)
(* parse_header                                                            *)
(***************************************************************************)
EmptyDict == [k \in {} |-> None]

\* hdr[k] = v
Put(d, k, v) == [x \in DOMAIN d \cup {k} |-> IF x = k THEN v ELSE d[x]]

\* [line.strip() for line in raw_hdr.split('\r\n') if line != '']
header_lines(raw_hdr) ==
    LET pieces == SplitCRLF(decode(raw_hdr))
        kept   == SelectSeq(pieces, LAMBDA line : line # <<>>)
    IN  [i \in DOMAIN kept |-> strip(kept[i])]

BANNER_WARNING == "Unexpected start to header"

FILE_NAME_WARNING == "Unable to parse original file path from Neuralynx header"

PARAM_WARNING == "Unable to parse parameter line from Neuralynx header"

\* The body of the parameter loop for one line: name, value = line[1:].split()
param_line(h, line) ==
    LET toks == split(Drop(line, 1))
    IN  IF Len(toks) = 2
        THEN [hdr |-> Put(h.hdr, toks[1], Str(toks[2])), warnings |-> h.warnings]
        ELSE [hdr |-> h.hdr, warnings |-> Append(h.warnings, PARAM_WARNING)]

\* for line in hdr_lines[4:]
RECURSIVE param_lines(_, _)
param_lines(h, lines) ==
    IF lines = <<>> THEN h ELSE param_lines(param_line(h, Head(lines)), Tail(lines))

Raise(exc, w) == [raised |-> exc, value |-> None, warnings |-> w]

Return(v, w) == [raised |-> "none", value |-> v, warnings |-> w]

\* hdr[key] = line[3:]; hdr[key_dt] = the parsed time, unless parsing raised
time_fields(hdr, w, line, key, key_dt, parsed) ==
    IF parsed.raised # "none"
    THEN Raise(parsed.raised, w)
    ELSE Return(Put(Put(hdr, key, Str(Drop(line, 3))), key_dt, parsed.value),
                w \o parsed.warnings)

\* The parameter loop, entered with the dictionary the time lines left.
parse_params(hdr_lines, h) ==
    IF h.raised # "none" THEN h
    ELSE LET p == param_lines([hdr |-> h.value, warnings |-> h.warnings],
                              Drop(hdr_lines, 4))
         IN  Return(p.hdr, p.warnings)

\* hdr_lines[3]: the closing time
parse_time_closed(hdr_lines, h) ==
    IF h.raised # "none" THEN h
    ELSE IF Len(hdr_lines) < 4 THEN Raise("IndexError", h.warnings)
    ELSE parse_params(hdr_lines,
                      time_fields(h.value, h.warnings, hdr_lines[4], KEY_TimeClosed,
                                  KEY_TimeClosed_dt,
                                  parse_neuralynx_time_string(hdr_lines[4])))

\* hdr_lines[2]: the opening time
parse_time_opened(hdr_lines, hdr, w) ==
    IF Len(hdr_lines) < 3 THEN Raise("IndexError", w)
    ELSE parse_time_closed(hdr_lines,
                           time_fields(hdr, w, hdr_lines[3], KEY_TimeOpened,
                                       KEY_TimeOpened_dt,
                                       parse_neuralynx_time_string(hdr_lines[3])))

\* hdr_lines[1].split()[1:3] == ['File', 'Name']
file_name_ok(toks) == SubSeq(toks, 2, Min(3, Len(toks))) = <<FILE, NAME>>

\* hdr_lines[1]: the original file path.  With no second line the except
\* clause raises while it builds its message from hdr_lines[1].
parse_file_name(hdr_lines, toks, w) ==
    IF Len(hdr_lines) < 2 THEN Raise("IndexError", w)
    ELSE IF file_name_ok(toks)
    THEN parse_time_opened(hdr_lines, Put(EmptyDict, KEY_FileName, Str(join(Drop(toks, 3)))),
                           w)
    ELSE parse_time_opened(hdr_lines, EmptyDict, Append(w, FILE_NAME_WARNING))

\* hdr_lines[0]: the banner
parse_lines(hdr_lines) ==
    IF Len(hdr_lines) < 1 THEN Raise("IndexError", <<>>)
    ELSE parse_file_name(hdr_lines,
                         IF Len(hdr_lines) >= 2 THEN split(hdr_lines[2]) ELSE <<>>,
                         IF hdr_lines[1] # BANNER THEN <<BANNER_WARNING>> ELSE <<>>)

parse_header(raw_hdr) == parse_lines(header_lines(raw_hdr))

(***************************************************************************)
(* check_ncs_records                                                       *)
(***************************************************************************)
\* np.uint64 subtraction
sub_u64(a, b) == (a - b) % UINT64_MOD

\* np.diff(records['TimeStamp']): an array of Len - 1 unsigned differences
np_diff(records) ==
    [i \in 1..(Len(records) - 1) |->
        sub_u64(records[i + 1].TimeStamp, records[i].TimeStamp)]

\* np.abs of an unsigned integer: the value itself
np_abs_u64(a) == a

\* dt = np.abs(dt - dt[0]), for dt not empty
dt_deviation(dt) == [i \in DOMAIN dt |-> np_abs_u64(sub_u64(dt[i], dt[1]))]

check_ncs_records(records) ==
    LET dt == dt_deviation(np_diff(records))
    IN  IF Len(records) < 2
        THEN \* dt[0] of an empty array
             [raised |-> "IndexError", value |-> None, warnings |-> <<>>]
        ELSE IF \E i \in DOMAIN records :
                    records[i].ChannelNumber # records[1].ChannelNumber
        THEN [raised |-> "none", value |-> FALSE,
              warnings |-> <<"Channel number changed during record sequence">>]
        ELSE IF \E i \in DOMAIN records : records[i].SampleFreq # records[1].SampleFreq
        THEN [raised |-> "none", value |-> FALSE,
              warnings |-> <<"Sampling frequency changed during record sequence">>]
        ELSE IF \E i \in DOMAIN records : records[i].NumValidSamples # FULL_RECORD
        THEN [raised |-> "none", value |-> FALSE,
              warnings |-> <<"Invalid samples in one or more records">>]
        ELSE IF \E i \in DOMAIN dt : ~(dt[i] <= 1)
        THEN [raised |-> "none", value |-> FALSE,
              warnings |-> <<"Time stamp difference tolerance exceeded">>]
        ELSE [raised |-> "none", value |-> TRUE, warnings |-> <<>>]

(***************************************************************************)
(* load_ncs                                                                *)
(***************************************************************************)
MICROVOLT_SCALING == 1000000

RECURSIVE SumLen(_)
SumLen(blocks) == IF blocks = <<>> THEN 0 ELSE Head(blocks).len + SumLen(Tail(blocks))

\* records['Samples'].ravel(): the records' sample arrays one after the other,
\* kept as the sequence of blocks and the length of the whole (data.shape[0]).
ravel(records) ==
    LET blocks == [k \in DOMAIN records |-> records[k].Samples]
    IN  [shape |-> SumLen(blocks), blocks |-> blocks]

\* An interpolation that goes on past the last anchor with the slope of the
\* last segment, where np.interp holds the last value.
np_interp_extrapolating(x, xp, fp) ==
    LET n == Len(xp)
        j == IF x >= xp[n] THEN n - 1
             ELSE CHOOSE k \in 1..(n - 1) : xp[k] <= x /\ x < xp[k + 1]
    IN  IF x < xp[1] \/ n = 1 THEN [num |-> fp[1], den |-> 1]
        ELSE [num |-> (fp[j + 1] - fp[j]) * (x - xp[j]) + fp[j] * (xp[j + 1] - xp[j]),
              den |-> xp[j + 1] - xp[j]]

\* np.interp(x, xp, fp) at one point x, for xp increasing and not empty: fp
\* at the first anchor to the left of it, fp at the last anchor from it on
\* and to the right, and on the segment xp[j] <= x < xp[j + 1] the value
\* slope * (x - xp[j]) + fp[j], here the exact fraction num / den.
np_interp(x, xp, fp) ==
    LET n == Len(xp)
        j == CHOOSE k \in 1..(n - 1) : xp[k] <= x /\ x < xp[k + 1]
    IN  IF x < xp[1] THEN [num |-> fp[1], den |-> 1]
        ELSE IF x >= xp[n] THEN [num |-> fp[n], den |-> 1]
        ELSE [num |-> (fp[j + 1] - fp[j]) * (x - xp[j]) + fp[j] * (xp[j + 1] - xp[j]),
              den |-> xp[j + 1] - xp[j]]

\* .astype(np.uint64) of a float that is not negative: truncation
astype_uint64(q) == CDiv(q.num, q.den)

\* np.interp(np.arange(num_samples), np.arange(0, num_samples, 512),
\*           records['TimeStamp']).astype(np.uint64); index i here is sample i - 1
sample_times(data, records) ==
    LET num_samples == data.shape
        xp == [k \in 1..((num_samples + ANCHOR_STEP - 1) \div ANCHOR_STEP) |->
                  (k - 1) * ANCHOR_STEP]
        fp == [k \in 1..Len(records) |-> records[k].TimeStamp]
    IN  [i \in 1..num_samples |-> astype_uint64(np_interp(i - 1, xp, fp))]

\* The part of load_ncs after the consistency check.
assemble_ncs(raw_header, header, records, load_time, rescale_data, w) ==
    LET has_factor == KEY_ADBitVolts \in DOMAIN header
        rescaled   == rescale_data /\ has_factor
        w1 == IF rescale_data /\ ~has_factor
              THEN Append(w, "Unable to rescale data, no ADBitVolts value specified in header")
              ELSE w
    IN  IF rescaled /\ ~IsFloatLiteral(header[KEY_ADBitVolts].v)
        THEN \* np.float64(header['ADBitVolts'])
             [raised |-> "ValueError", value |-> None, warnings |-> w]
        ELSE [raised |-> "none",
              value  |-> [raw_header |-> raw_header,
                          header |-> header,
                          data |-> ravel(records),
                          data_factor |-> IF rescaled
                                          THEN <<header[KEY_ADBitVolts].v, MICROVOLT_SCALING>>
                                          ELSE <<>>,
                          data_units |-> IF rescaled THEN "uV" ELSE "ADC counts",
                          sampling_rate |-> records[1].SampleFreq,
                          channel_number |-> records[1].ChannelNumber,
                          timestamp |-> [k \in DOMAIN records |-> records[k].TimeStamp],
                          time |-> IF load_time THEN sample_times(ravel(records), records)
                                   ELSE <<>>,
                          time_units |-> IF load_time THEN "us" ELSE "absent"],
              warnings |-> w1]

\* load_ncs from the check on
checked_ncs(raw_header, header, records, check, load_time, rescale_data) ==
    IF check.raised # "none"
    THEN Raise(check.raised, header.warnings)
    ELSE assemble_ncs(raw_header, header.value, records, load_time, rescale_data,
                      header.warnings \o check.warnings)

\* load_ncs after the with block
decoded_ncs(raw, rec, header, load_time, rescale_data) ==
    IF rec.raised # "none" THEN Raise(rec.raised, <<>>)
    ELSE IF header.raised # "none" THEN Raise(header.raised, header.warnings)
    ELSE checked_ncs(raw.value, header, rec.value, check_ncs_records(rec.value),
                     load_time, rescale_data)

load_ncs(f, load_time, rescale_data) ==
    decoded_ncs(read_header(f, 0), read_records(f, 0, "NCS_RECORD", 0, NoCount),
                parse_header(read_header(f, 0).value), load_time, rescale_data)

(***************************************************************************)
(* load_nev                                                                *)
(***************************************************************************)
\* records[['pkt_id', 'TimeStamp', 'event_id', 'ttl', 'Extra', 'EventString']]
event_view(r) ==
    [pkt_id |-> r.pkt_id, TimeStamp |-> r.TimeStamp, event_id |-> r.event_id,
     ttl |-> r.ttl, Extra |-> r.Extra, EventString |-> r.EventString]

\* load_nev after the with block
decoded_nev(raw, rec, header) ==
    IF rec.raised # "none" THEN Raise(rec.raised, <<>>)
    ELSE IF header.raised # "none" THEN Raise(header.raised, header.warnings)
    ELSE Return([raw_header |-> raw.value,
                 header |-> header.value,
                 records |-> rec.value,
                 events |-> [k \in DOMAIN rec.value |-> event_view(rec.value[k])]],
                header.warnings)

load_nev(f) ==
    decoded_nev(read_header(f, 0), read_records(f, 0, "NEV_RECORD", 0, NoCount),
                parse_header(read_header(f, 0).value))

(***************************************************************************)
(* The files the operations are applied to.                                *)
(***************************************************************************)
CRLF == <<CR, LF>>

\* The header text with the given lines, each ended by CR LF.
RECURSIVE HeaderText(_)
HeaderText(lines) ==
    IF lines = <<>> THEN <<>> ELSE Head(lines) \o CRLF \o HeaderText(Tail(lines))

GOOD_HEADER ==
    HeaderText(<<BANNER, LINE_FILE_NAME, TIME_OPENED, TIME_CLOSED, PARAM_ADBITVOLTS>>)

\* A file with a whole header region: the text, NUL padding up to
\* HEADER_LENGTH, the records and tail further bytes.
FullFile(hdr, kind, recs, tail) ==
    [hdr |-> hdr, pad |-> HEADER_LENGTH - Len(hdr), kind |-> kind, recs |-> recs,
     tail |-> tail]

\* A file of size bytes, size < HEADER_LENGTH: the text and NUL padding.
ShortFile(hdr, kind, size) ==
    [hdr |-> hdr, pad |-> size - Len(hdr), kind |-> kind, recs |-> <<>>, tail |-> 0]

NcsRecord(ts, ch, fq, nv, s) ==
    [TimeStamp |-> ts, ChannelNumber |-> ch, SampleFreq |-> fq, NumValidSamples |-> nv,
     Samples |-> SampleBlock(s)]

NevRecord(ts, id) ==
    [stx |-> 0, pkt_id |-> 1, pkt_data_size |-> 0, TimeStamp |-> ts, event_id |-> id,
     ttl |-> id % 2, crc |-> 0, dummy1 |-> 0, dummy2 |-> 0,
     Extra |-> [j \in 1..8 |-> 0], EventString |-> <<"e", "v">>]

\* What distinguishes the last record of a sequence from the others.
Deviations == {"none", "channel", "rate", "valid"}

\* Continuous records with the given time stamps.
NcsRecords(ts, dev) ==
    [k \in 1..Len(ts) |->
        NcsRecord(ts[k],
                  IF dev = "channel" /\ k = Len(ts) THEN 2 ELSE 1,
                  IF dev = "rate" /\ k = Len(ts) THEN 32000 ELSE 30000,
                  IF dev = "valid" /\ k = Len(ts) THEN FULL_RECORD - 1 ELSE FULL_RECORD,
                  k)]

NevRecords(n) == [k \in 1..n |-> NevRecord((k - 1) % UINT64_MOD, k)]

\* n records of the given layout, evenly spaced in time.
UniformRecords(kind, n) ==
    IF kind = "NCS_RECORD"
    THEN NcsRecords([k \in 1..n |-> (k - 1) % UINT64_MOD], "none")
    ELSE NevRecords(n)

\* Sequences of up to MaxRecords time stamps.
TimeStampSeqs ==
    UNION {{ts \in [1..n -> 0..(UINT64_MOD - 1)] : n = 0 \/ ts[1] \in {0, UINT64_MOD - 1}}
           : n \in 0..MaxRecords}

IOHeaders == {GOOD_HEADER, <<NUL>> \o GOOD_HEADER, <<>>}

IOFiles ==
    {FullFile(h, kind, UniformRecords(kind, n), tail) :
        h \in IOHeaders, kind \in {"NCS_RECORD", "NEV_RECORD"}, n \in 0..MaxRecords,
        tail \in {0, 17}}
    \cup
    {ShortFile(h, kind, size) :
        h \in IOHeaders, kind \in {"NCS_RECORD", "NEV_RECORD"},
        size \in {Len(GOOD_HEADER) + 1, HEADER_LENGTH - 1}}

\* Evenly spaced time stamps, one sequence for each length from 1 on.
UniformSeqs == {[k \in 1..n |-> (k - 1) % UINT64_MOD] : n \in 1..MaxRecords}

\* Records alike in all but their time stamps, and evenly spaced records
\* whose last one deviates.
RecordFiles ==
    {FullFile(GOOD_HEADER, "NCS_RECORD", NcsRecords(ts, "none"), 0) :
        ts \in TimeStampSeqs}
    \cup
    {FullFile(GOOD_HEADER, "NCS_RECORD", NcsRecords(ts, dev), 0) :
        ts \in UniformSeqs, dev \in Deviations \ {"none"}}

ParamCandidates ==
    {PARAM_A, PARAM_A2, PARAM_NO_DASH, PARAM_ONE_TOKEN, PARAM_THREE_TOKENS,
     PARAM_DASH_SPACE, PARAM_ADBITVOLTS}

ParamSeqs == UNION {[1..n -> ParamCandidates] : n \in 0..MaxParams}

FirstLines ==
    {<<l0, l1, l2, l3>> :
        l0 \in {BANNER, OTHER_BANNER}, l1 \in {LINE_FILE_NAME, LINE_NO_FILE_NAME},
        l2 \in {TIME_OPENED, TIME_MISSING_TOKENS, TIME_MONTH_13},
        l3 \in {TIME_CLOSED, TIME_MISSING_TOKENS}}

HeaderLineSeqs ==
    {first \o params : first \in FirstLines, params \in ParamSeqs}
    \cup {Take(first, k) : first \in FirstLines, k \in 0..3}

HeaderFiles ==
    {FullFile(HeaderText(lines), "NCS_RECORD", <<>>, 0) : lines \in HeaderLineSeqs}

TimeStrings ==
    {TIME_OPENED, TIME_CLOSED, TIME_MISSING_TOKENS, TIME_MONTH_13, TIME_HOUR_24,
     TIME_MS_1000, TIME_TWO_DATE_FIELDS, TIME_NON_NUMERIC, TIME_NO_MS, TIME_FEB_30}

Positions == {0, 100, HEADER_LENGTH, HEADER_LENGTH + NCS_ITEMSIZE + 5}

Skips == {-16, -1, 0, 1, MaxRecords + 1}

Counts == {NoCount, Count(0), Count(1), Count(MaxRecords + 2)}

(***************************************************************************)
(* The operations.                                                         *)
(***************************************************************************)
NoResult ==
    [op |-> "none", args |-> <<>>, raised |-> "none", value |-> None, warnings |-> <<>>]

Outcome(op, args, r) ==
    [op |-> op, args |-> args, raised |-> r.raised, value |-> r.value,
     warnings |-> r.warnings]

ReadHeader ==
    LET r == read_header(file, pos)
    IN  /\ res' = Outcome("read_header", <<>>, r)
        /\ pos' = r.pos
        /\ UNCHANGED file

ReadRecords ==
    \E skip \in Skips, cnt \in Counts :
        LET r == read_records(file, pos, file.kind, skip, cnt)
        IN  /\ res' = Outcome("read_records", [record_skip |-> skip, count |-> cnt], r)
            /\ pos' = r.pos
            /\ UNCHANGED file

EstimateRecordCount ==
    /\ res' = Outcome("estimate_record_count", <<>>,
                      estimate_record_count(file, file.kind))
    /\ UNCHANGED <<file, pos>>

ParseTimeString ==
    \E s \in TimeStrings :
        /\ res' = Outcome("parse_neuralynx_time_string", s,
                          parse_neuralynx_time_string(s))
        /\ UNCHANGED <<file, pos>>

\* parse_header on the header read from the file
ParseHeader ==
    /\ res' = Outcome("parse_header", <<>>, parse_header(read_header(file, pos).value))
    /\ UNCHANGED <<file, pos>>

\* check_ncs_records on the records read from the file
CheckNcsRecords ==
    /\ file.kind = "NCS_RECORD"
    /\ res' = Outcome("check_ncs_records", <<>>,
                      check_ncs_records(read_records(file, pos, "NCS_RECORD", 0,
                                                     NoCount).value))
    /\ UNCHANGED <<file, pos>>

\* load_ncs opens the file itself: the caller's file object is not involved.
LoadNcs ==
    \E load_time \in BOOLEAN, rescale_data \in BOOLEAN :
        /\ file.kind = "NCS_RECORD"
        /\ res' = Outcome("load_ncs",
                          [load_time |-> load_time, rescale_data |-> rescale_data],
                          load_ncs(file, load_time, rescale_data))
        /\ UNCHANGED <<file, pos>>

LoadNev ==
    /\ file.kind = "NEV_RECORD"
    /\ res' = Outcome("load_nev", <<>>, load_nev(file))
    /\ UNCHANGED <<file, pos>>

(***************************************************************************)
(* Spec: the file object and the loaders, over files of every length.      *)
(***************************************************************************)
Init ==
    /\ file \in IOFiles
    /\ pos \in Positions
    /\ res = NoResult

Next ==
    \/ ReadHeader
    \/ ReadRecords
    \/ EstimateRecordCount
    \/ LoadNcs
    \/ LoadNev

Spec == Init /\ [][Next]_vars

(***************************************************************************)
(* SpecRecords: the consistency check and load_ncs, over record sequences. *)
(***************************************************************************)
InitRecords ==
    /\ file \in RecordFiles
    /\ pos = 0
    /\ res = NoResult

\* One operation is applied to the file drawn.
NextRecords ==
    \/ res.op = "none" /\ CheckNcsRecords
    \/ res.op = "none" /\ LoadNcs

SpecRecords == InitRecords /\ [][NextRecords]_vars

(***************************************************************************)
(* SpecHeader: the header parser, over header texts.                       *)
(***************************************************************************)
InitHeader ==
    /\ file \in HeaderFiles
    /\ pos = 0
    /\ res = NoResult

\* One operation is applied to the header drawn.
NextHeader ==
    \/ res.op = "none" /\ ParseHeader
    \/ res.op = "none" /\ ParseTimeString

SpecHeader == InitHeader /\ [][NextHeader]_vars

(***************************************************************************)
(* Properties.                                                             *)
(***************************************************************************)
TimeStamps == [k \in DOMAIN file.recs |-> file.recs[k].TimeStamp]

\* The gap between records i and i + 1, as an integer.
Gap(i) == TimeStamps[i + 1] - TimeStamps[i]

Abs(x) == IF x < 0 THEN -x ELSE x

\* The time stamps do not decrease and no gap reaches half the range of the
\* unsigned type: the gaps are what they are on paper.
PlainGaps ==
    \A i \in 1..(Len(TimeStamps) - 1) : Gap(i) >= 0 /\ 2 * Gap(i) < UINT64_MOD

\* What C1 says the check returns.
ConsistentOnPaper ==
    /\ \A i \in DOMAIN file.recs :
          /\ file.recs[i].ChannelNumber = file.recs[1].ChannelNumber
          /\ file.recs[i].SampleFreq = file.recs[1].SampleFreq
          /\ file.recs[i].NumValidSamples = 512
    /\ \A i \in 1..(Len(TimeStamps) - 1) : Abs(Gap(i) - Gap(1)) <= 1

\* C1: for two or more records with plain gaps, check_ncs_records returns
\* True exactly when channel and rate are constant, every valid-sample count
\* is 512 and every gap is within one microsecond of the first gap, a gap one
\* microsecond shorter than the first included.
C1_CheckWithinOneMicrosecond ==
    (res.op = "check_ncs_records" /\ Len(file.recs) >= 2 /\ PlainGaps)
        => (res.raised = "none" /\ res.value = ConsistentOnPaper)

\* C2: a read_header or read_records call that returns normally leaves the
\* file object at the position it had when the call was made.
C2_PositionRestored ==
    [][(res'.op \in {"read_header", "read_records"} /\ res'.raised = "none")
          => pos' = pos]_vars

\* C2 witness: read_records has skipped a record, read one or more and
\* returned with the file object at offset 100, where the caller had put it.
C2_Witness ==
    /\ res.op = "read_records"
    /\ res.raised = "none"
    /\ res.args.record_skip = 1
    /\ Len(res.value) >= 1
    /\ pos = 100

\* C3: load_ncs of a file of 16384 + N * 1044 + r bytes, 0 < r < 1044, yields
\* the N whole records and emits a truncation warning.
C3_TruncationWarned ==
    (res.op = "load_ncs" /\ res.raised = "none" /\ file.tail \in 1..(NCS_ITEMSIZE - 1))
        => /\ Len(res.value.timestamp) = Len(file.recs)
           /\ res.value.data.shape = NCS_SAMPLES_PER_RECORD * Len(file.recs)
           /\ SIZE_WARNING \in Range(res.warnings)

\* C4: for a file of at least 16384 bytes read_header returns the first 16384
\* bytes with only the run of NUL bytes at their end removed.
C4_HeaderVerbatim ==
    (res.op = "read_header" /\ FileSize(file) >= HEADER_LENGTH)
        => (res.raised = "none" /\ res.value = RStripNul(file.hdr))

\* The parameter lines of the header in the file: the lines after the fourth.
ParamLines == Drop(header_lines(StripNul(fid_read(file, HEADER_LENGTH))), 4)

\* A line of the form -NAME VALUE: a leading dash and two tokens.
WellFormed(line) ==
    /\ line # <<>>
    /\ line[1] = "-"
    /\ Len(split(line)) = 2
    /\ Len(split(line)[1]) >= 2

ReservedKeys ==
    {KEY_FileName, KEY_TimeOpened, KEY_TimeOpened_dt, KEY_TimeClosed, KEY_TimeClosed_dt}

\* The last well-formed parameter line that names key, or 0.
LastLineOf(key) ==
    LET S == {i \in DOMAIN ParamLines :
                WellFormed(ParamLines[i]) /\ Tail(split(ParamLines[i])[1]) = key}
    IN  IF S = {} THEN 0 ELSE CHOOSE i \in S : \A k \in S : k <= i

\* C5: the mapping parse_header returns holds, besides the reserved fields,
\* NAME -> VALUE for the well-formed parameter lines -NAME VALUE and nothing
\* for any other line.
C5_OnlyWellFormedLines ==
    (res.op = "parse_header" /\ res.raised = "none")
        => /\ \A i \in DOMAIN ParamLines :
                WellFormed(ParamLines[i])
                    => Tail(split(ParamLines[i])[1]) \in DOMAIN res.value
           /\ \A key \in (DOMAIN res.value) \ ReservedKeys :
                /\ LastLineOf(key) # 0
                /\ res.value[key] = Str(split(ParamLines[LastLineOf(key)])[2])

\* C6: parse_neuralynx_time_string never raises, and the string with date
\* 12/25/2020 and time 13:45:30.500 yields 2020-12-25 13:45:30.500000.
C6_TimeStringNeverRaises ==
    (res.op = "parse_neuralynx_time_string")
        => /\ res.raised = "none"
           /\ res.args = TIME_OPENED
                => /\ res.value.t = "datetime"
                   /\ <<res.value.year, res.value.month, res.value.day>> = <<2020, 12, 25>>
                   /\ <<res.value.hour, res.value.minute, res.value.second>> = <<13, 45, 30>>
                   /\ res.value.microsecond = 500000

\* C7: read_header fails with an IOError on a file of fewer than 16384 bytes,
\* and load_ncs and load_nev return no result for such a file.
C7_ShortHeaderFails ==
    (FileSize(file) < HEADER_LENGTH)
        => /\ res.op = "read_header" => res.raised = "IOError"
           /\ res.op \in {"load_ncs", "load_nev"} => res.raised # "none"

\* C8: for one or more records check_ncs_records returns a boolean without
\* raising, and load_ncs returns the data whatever the check found.
C8_CheckNeverRaises ==
    (res.op \in {"check_ncs_records", "load_ncs"} /\ Len(file.recs) >= 1)
        => /\ res.raised = "none"
           /\ res.op = "check_ncs_records" => res.value \in BOOLEAN
           /\ res.op = "load_ncs" => res.value.data.shape = 512 * Len(file.recs)

\* C9: parse_header returns a mapping without raising for a header with
\* fewer than four lines, the empty header included.
C9_ShortHeaderParses ==
    (res.op = "parse_header"
        /\ Len(header_lines(StripNul(fid_read(file, HEADER_LENGTH)))) < 4)
        => res.raised = "none"

\* A load_ncs call with load_time enabled has returned the data of two or
\* more records.
TimesDerived ==
    /\ res.op = "load_ncs"
    /\ res.raised = "none"
    /\ res.args.load_time
    /\ Len(file.recs) >= 2

\* The value of T_k + j * (T_k2 - T_k1) / 512 truncated, for a value that is
\* not negative.
Along(k, k1, k2, j) ==
    (512 * TimeStamps[k] + j * (TimeStamps[k2] - TimeStamps[k1])) \div 512

\* The samples of every record but the last are interpolated between the
\* record's time stamp and the next one's.
InteriorInterpolated ==
    \A k \in 1..(Len(file.recs) - 1) : \A j \in 0..511 :
        res.value.time[512 * (k - 1) + j + 1] = Along(k, k, k + 1, j)

\* C10 as stated: the samples of the last record go on with the slope of the
\* gap before it.
C10_LastRecordExtrapolated ==
    TimesDerived
        => /\ InteriorInterpolated
           /\ \A j \in 0..511 :
                res.value.time[512 * (Len(file.recs) - 1) + j + 1]
                    = Along(Len(file.recs), Len(file.recs) - 1, Len(file.recs), j)

\* C10: with load_time enabled and N >= 2 records, sample 512k + j of a
\* record k that is not the last carries T_k + j * (T_{k+1} - T_k) / 512
\* truncated, and every sample of the last record carries T_{N-1}.
C10_LastRecordHeld ==
    TimesDerived
        => /\ InteriorInterpolated
           /\ Len(res.value.time) = 512 * Len(file.recs)
           /\ \A j \in 0..511 :
                res.value.time[512 * (Len(file.recs) - 1) + j + 1]
                    = TimeStamps[Len(file.recs)]

\* C10 witness: three records with different gaps; a sample inside the first
\* record lies strictly between the two time stamps around it, and the last
\* sample of the file carries the last time stamp.
C10_Witness ==
    /\ TimesDerived
    /\ Len(file.recs) = 3
    /\ TimeStamps[1] + 1 < TimeStamps[2]
    /\ TimeStamps[3] # TimeStamps[2]
    /\ res.value.time[257] > TimeStamps[1]
    /\ res.value.time[257] < TimeStamps[2]
    /\ res.value.time[3 * 512] = TimeStamps[3]

====
